---- MODULE Spec2Model ----
(***************************************************************************)
(* Environment validation of axum-auth: the dotenv load step, the          *)
(* reconciliation of the required variables with the process environment   *)
(* (unknown / missing / type checks), the schema registry RequiredEnvVar   *)
(* and the type verifier AppType.                                          *)
(*                                                                         *)
(* Strings are sequences of one-character strings, so that concatenation   *)
(* (format!("{}{}")), starts_with, is_empty and str::parse::<u16> are      *)
(* computed character by character.  A formatted message is kept as its    *)
(* format string together with the arguments substituted into it.          *)
(***************************************************************************)
EXTENDS Integers, Sequences, FiniteSets, TLC

VARIABLES
    env,         \* the process environment (std::env): name -> value
    envFile,     \* what is on disk at ENV_FILE_PATH
    APP_PREFIX,  \* the prefix the schema registry builds names with
    result,      \* outcome of the last call of load
    call,        \* record of the last call of load: arguments and steps taken
    previous,    \* the call of load before the last one, and its outcome
    calls,       \* number of calls of load made so far
    input,       \* the (type, value) pair handed to AppType::verify
    verified,    \* outcome of the last call of AppType::verify
    registry,    \* the calls made on RequiredEnvVar so far, with their outcomes
    errors,      \* the two AppError values handed to eq
    equal,       \* outcome of the last call of eq
    CONFIG_FILE_PATH,  \* the OnceCell holding the path of the configuration file
    APP_CONFIG,  \* the Lazy cell holding the configuration
    configFiles, \* what is on disk at each configuration path
    accesses     \* the calls made on the configuration so far, with their outcomes

vars ==
    <<env, envFile, APP_PREFIX, result, call, previous, calls, input, verified,
      registry, errors, equal, CONFIG_FILE_PATH, APP_CONFIG, configFiles, accesses>>

errVars == <<errors, equal>>
configVars == <<CONFIG_FILE_PATH, APP_CONFIG, configFiles, accesses>>

----------------------------------------------------------------------------
(* Strings of the program *)

\* src/strings/env.rs
DB_NAME == <<"D", "B", "_", "N", "A", "M", "E">>
DB_HOST == <<"D", "B", "_", "H", "O", "S", "T">>
DB_PORT == <<"D", "B", "_", "P", "O", "R", "T">>
DB_USER == <<"D", "B", "_", "U", "S", "E", "R">>
DB_PASS == <<"D", "B", "_", "P", "A", "S", "S">>
DB_SSL_MODE == <<"D", "B", "_", "S", "S", "L", "_", "M", "O", "D", "E">>
PATH_TO_DB_SSL_ROOT_CERT ==
    <<"P", "A", "T", "H", "_", "T", "O", "_", "D", "B", "_", "S", "S", "L",
      "_", "R", "O", "O", "T", "_", "C", "E", "R", "T">>

\* src/strings/postgres.rs
DISABLE_SSL == <<"d", "i", "s", "a", "b", "l", "e">>
ALLOW_SSL == <<"a", "l", "l", "o", "w">>
PREFER_SSL == <<"p", "r", "e", "f", "e", "r">>
REQUIRE_SSL == <<"r", "e", "q", "u", "i", "r", "e">>
VERIFY_CA_SSL == <<"v", "e", "r", "i", "f", "y", "-", "c", "a">>
VERIFY_FULL_SSL == <<"v", "e", "r", "i", "f", "y", "-", "f", "u", "l", "l">>

\* Option<T>
None == <<>>
Some(x) == <<x>>

\* Result<(), AppError>
Ok == [ok |-> TRUE]
Err(e) == [ok |-> FALSE, err |-> e]

\* format!(tmpl, args...)
Format(tmpl, args) == [tmpl |-> tmpl, args |-> args]

\* str::is_empty
is_empty(s) == Len(s) = 0

\* str::starts_with
starts_with(s, prefix) ==
    /\ Len(prefix) <= Len(s)
    /\ SubSeq(s, 1, Len(prefix)) = prefix

\* slice::contains
contains(slice, x) == \E i \in 1..Len(slice) : slice[i] = x

----------------------------------------------------------------------------
(* Errors *)

AppError_new(kind, message, source) ==
    [kind |-> kind, message |-> message, source |-> source]

\* the display string of an error used as a source: the two AppError
\* values of test_app_error_new_with_source are different objects that
\* display alike, any other source displays as what it is written as here
SOURCE_ERR_DISPLAY == "AppError { kind: Env, message: Some env error, source: None }"

to_string(e) ==
    IF e \in {"source_err", "source_err_copy"} THEN SOURCE_ERR_DISPLAY ELSE e

\* source.as_ref().map(|e| e.to_string())
map_to_string(source) == IF source = None THEN None ELSE Some(to_string(source[1]))

\* AppError_eq that compares the sources themselves
AppError_eq_by_identity(a, b) ==
    /\ a.kind = b.kind
    /\ a.message = b.message
    /\ a.source = b.source

\* PartialEq for AppError: sources are compared by their display strings
AppError_eq(a, b) ==
    /\ a.kind = b.kind
    /\ a.message = b.message
    /\ map_to_string(a.source) = map_to_string(b.source)

----------------------------------------------------------------------------
(* str::parse::<u16> *)

U16_MAX == 65535

Digits == <<"0", "1", "2", "3", "4", "5", "6", "7", "8", "9">>

to_digit(c) ==
    IF \E d \in 1..10 : Digits[d] = c
    THEN Some((CHOOSE d \in 1..10 : Digits[d] = c) - 1)
    ELSE None

RECURSIVE parse_digits(_, _, _)
parse_digits(digits, i, acc) ==
    IF i > Len(digits) THEN [ok |-> TRUE, val |-> acc]
    ELSE LET x == to_digit(digits[i]) IN
         IF x = None THEN [ok |-> FALSE, err |-> "InvalidDigit"]
         ELSE IF acc * 10 > U16_MAX THEN [ok |-> FALSE, err |-> "PosOverflow"]
         ELSE IF acc * 10 + x[1] > U16_MAX
              THEN [ok |-> FALSE, err |-> "PosOverflow"]
         ELSE parse_digits(digits, i + 1, acc * 10 + x[1])

parse_u16(src) ==
    IF is_empty(src) THEN [ok |-> FALSE, err |-> "Empty"]
    ELSE IF Len(src) = 1 /\ src[1] \in {"+", "-"}
         THEN [ok |-> FALSE, err |-> "InvalidDigit"]
    ELSE IF src[1] = "+" THEN parse_digits(Tail(src), 1, 0)
    ELSE parse_digits(src, 1, 0)

\* prelude::is_u16
is_u16(value, err_kind) ==
    LET p == parse_u16(value) IN
    IF p.ok THEN Ok
    ELSE Err(AppError_new(
             IF err_kind = None THEN "Parse" ELSE err_kind[1],
             Format("Failed to parse value as u16: '{}'", <<value>>),
             Some(p.err)))

----------------------------------------------------------------------------
(* The file system seen by Path::exists, Path::is_file and File::open *)

CERT_FILE == <<"/", "c">>      \* a regular file that can be opened
UNREADABLE_FILE == <<"/", "u">> \* a regular file that cannot be opened
DIRECTORY == <<"/", "d">>      \* a directory
NO_SUCH_PATH == <<"/", "n">>   \* nothing at this path

path_exists(p) == p \in {CERT_FILE, UNREADABLE_FILE, DIRECTORY}
path_is_file(p) == p \in {CERT_FILE, UNREADABLE_FILE}
file_open(p) ==
    IF p = CERT_FILE THEN [ok |-> TRUE]
    ELSE IF p = UNREADABLE_FILE THEN [ok |-> FALSE, err |-> "PermissionDenied"]
    ELSE IF p = DIRECTORY THEN [ok |-> TRUE]
    ELSE [ok |-> FALSE, err |-> "NotFound"]

----------------------------------------------------------------------------
(* core::types::AppType, the type verifier *)

String == [tag |-> "String", allowed |-> <<>>]
U16 == [tag |-> "U16", allowed |-> <<>>]
Enum(allowed_values) == [tag |-> "Enum", allowed |-> allowed_values]
FilePath == [tag |-> "FilePath", allowed |-> <<>>]

construct_err_msg(self, val) ==
    Format("{} {:?}: \"{}\"", <<"INVALID_VALUE_FOR_TYPE", self, val>>)

\* invalid_val that drops the underlying cause
invalid_val_dropping_source(self, val, source) ==
    AppError_new("InvalidValueType", construct_err_msg(self, val), None)

invalid_val(self, val, source) ==
    AppError_new("InvalidValueType", construct_err_msg(self, val), source)

\* verify_string that takes a value made of digits for a number
verify_string_rejecting_digits(self, val) ==
    IF is_empty(val) \/ parse_u16(val).ok THEN Err(invalid_val(self, val, None)) ELSE Ok

verify_string(self, val) ==
    IF is_empty(val) THEN Err(invalid_val(self, val, None)) ELSE Ok

verify_u16(self, val) ==
    LET p == parse_u16(val) IN
    IF p.ok THEN Ok ELSE Err(invalid_val(self, val, Some(p.err)))

\* verify_enum that trims a trailing space before it compares
verify_enum_trimming(self, allowed_values, val) ==
    IF \/ contains(allowed_values, val)
       \/ /\ ~is_empty(val)
          /\ val[Len(val)] = " "
          /\ contains(allowed_values, SubSeq(val, 1, Len(val) - 1))
    THEN Ok
    ELSE Err(invalid_val(self, val, None))

verify_enum(self, allowed_values, val) ==
    IF contains(allowed_values, val) THEN Ok
    ELSE Err(invalid_val(self, val, None))

\* verify_file_path without the attempt to open the file
verify_file_path_without_open(self, val) ==
    IF is_empty(val) \/ ~path_exists(val) \/ ~path_is_file(val)
    THEN Err(invalid_val(self, val, None))
    ELSE Ok

verify_file_path(self, val) ==
    IF is_empty(val) \/ ~path_exists(val) \/ ~path_is_file(val)
    THEN Err(invalid_val(self, val, None))
    ELSE LET f == file_open(val) IN
         IF ~f.ok THEN Err(invalid_val(self, val, Some(f.err))) ELSE Ok

AppType_verify(self, val) ==
    CASE self.tag = "String" -> verify_string(self, val)
      [] self.tag = "U16" -> verify_u16(self, val)
      [] self.tag = "Enum" -> verify_enum(self, self.allowed, val)
      [] self.tag = "FilePath" -> verify_file_path(self, val)

----------------------------------------------------------------------------
(* core::env::vars::RequiredEnvVar, the schema registry *)

\* the variants in declaration order
RequiredEnvVarIter ==
    <<"DbName", "DbHost", "DbPort", "DbUser", "DbPass", "DbSslMode",
      "PathToDbSslRootCert">>

\* RequiredEnvVar::all
all == {RequiredEnvVarIter[i] : i \in 1..Len(RequiredEnvVarIter)}

construct_name(prefix, name_) == prefix \o name_

suffix_name(self) ==
    CASE self = "DbName" -> DB_NAME
      [] self = "DbHost" -> DB_HOST
      [] self = "DbPort" -> DB_PORT
      [] self = "DbUser" -> DB_USER
      [] self = "DbPass" -> DB_PASS
      [] self = "DbSslMode" -> DB_SSL_MODE
      [] self = "PathToDbSslRootCert" -> PATH_TO_DB_SSL_ROOT_CERT

\* RequiredEnvVar::name: the prefix is the registry's, not the caller's
name(self) == construct_name(APP_PREFIX, suffix_name(self))

\* type_ that declares the port as a String
type_port_as_string(self) ==
    CASE self = "DbName" -> String
      [] self = "DbHost" -> String
      [] self = "DbPort" -> String
      [] self = "DbUser" -> String
      [] self = "DbPass" -> String
      [] self = "DbSslMode" ->
            Enum(<<DISABLE_SSL, ALLOW_SSL, PREFER_SSL, REQUIRE_SSL,
                   VERIFY_CA_SSL, VERIFY_FULL_SSL>>)
      [] self = "PathToDbSslRootCert" -> FilePath

type_(self) ==
    CASE self = "DbName" -> String
      [] self = "DbHost" -> String
      [] self = "DbPort" -> U16
      [] self = "DbUser" -> String
      [] self = "DbPass" -> String
      [] self = "DbSslMode" ->
            Enum(<<DISABLE_SSL, ALLOW_SSL, PREFER_SSL, REQUIRE_SSL,
                   VERIFY_CA_SSL, VERIFY_FULL_SSL>>)
      [] self = "PathToDbSslRootCert" -> FilePath

\* std::env::var
env_var(e, key) == IF key \in DOMAIN e THEN Some(e[key]) ELSE None

\* the outcome of a call that panicked instead of returning
Panic(msg) == [ok |-> FALSE, panic |-> msg]

\* RequiredEnvVar::value: expect() panics when the variable is unset
value(self, e) == env_var(e, name(self))

\* verify that takes a String made of digits for a mistake and echoes it
verify_rejecting_numeric_strings(self, e) ==
    LET v == value(self, e)
        t == type_(self)
    IN  IF v = None THEN Panic("Failed to get env var value")
        ELSE CASE t.tag = "String" ->
                    IF is_empty(v[1])
                    THEN Err(AppError_new("Env",
                             Format("Value cannot be empty for type: {:?}", <<t>>),
                             None))
                    ELSE IF parse_u16(v[1]).ok
                    THEN Err(AppError_new("Env",
                             Format("Value '{}' is not allowed for type {:?}",
                                    <<v[1], t>>),
                             None))
                    ELSE Ok
               [] t.tag = "U16" -> is_u16(v[1], Some("Env"))
               [] t.tag = "Enum" ->
                    IF contains(t.allowed, v[1]) THEN Ok
                    ELSE Err(AppError_new("Env",
                             Format("Value '{}' is not allowed for type {:?}",
                                    <<v[1], t>>),
                             None))
               [] t.tag = "FilePath" -> Ok

\* RequiredEnvVar::verify
verify(self, e) ==
    LET v == value(self, e)
        t == type_(self)
    IN  IF v = None THEN Panic("Failed to get env var value")
        ELSE CASE t.tag = "String" ->
                    IF is_empty(v[1])
                    THEN Err(AppError_new("Env",
                             Format("Value cannot be empty for type: {:?}", <<t>>),
                             None))
                    ELSE Ok
               [] t.tag = "U16" -> is_u16(v[1], Some("Env"))
               [] t.tag = "Enum" ->
                    IF contains(t.allowed, v[1]) THEN Ok
                    ELSE Err(AppError_new("Env",
                             Format("Value '{}' is not allowed for type {:?}",
                                    <<v[1], t>>),
                             None))
               [] t.tag = "FilePath" -> Ok

\* RequiredEnvVar::verify_all; vars: Self::all() in the order the set yields it
RECURSIVE verify_all(_, _, _)
verify_all(vars_, i, e) ==
    IF i > Len(vars_) THEN Ok
    ELSE LET r == verify(vars_[i], e) IN
         IF ~r.ok THEN r ELSE verify_all(vars_, i + 1, e)

----------------------------------------------------------------------------
(* The environment file and dotenvy::from_filename *)

ENV_FILE_PATH == <<".", "e", "n", "v">>
NON_EXISTENT_FILE == <<"n", "o", "n", "e">>

\* a line KEY=VALUE; a line holding a key with no =VALUE is malformed
Line(key, val) == [key |-> key, val |-> Some(val)]
Malformed(key) == [key |-> key, val |-> None]

\* the file at a path: envFile for ENV_FILE_PATH, nothing anywhere else
file_at(file_path) ==
    IF file_path = ENV_FILE_PATH THEN envFile
    ELSE [exists |-> FALSE, readable |-> FALSE, lines |-> <<>>]

\* dotenvy sets the variables line by line, keeps a variable that is
\* already set, and stops at the first line it cannot parse
RECURSIVE dotenvy_load(_, _, _)
dotenvy_load(lines, i, e) ==
    IF i > Len(lines) THEN [res |-> Ok, env |-> e]
    ELSE IF lines[i].val = None
         THEN [res |-> Err("LineParse"), env |-> e]
    ELSE IF lines[i].key \in DOMAIN e THEN dotenvy_load(lines, i + 1, e)
    ELSE dotenvy_load(lines, i + 1,
            [k \in DOMAIN e \cup {lines[i].key} |->
                IF k = lines[i].key THEN lines[i].val[1] ELSE e[k]])

dotenvy_from_filename(file_path, e) ==
    LET f == file_at(file_path) IN
    IF ~f.exists THEN [res |-> Err("Io(NotFound)"), env |-> e]
    ELSE IF ~f.readable THEN [res |-> Err("Io(PermissionDenied)"), env |-> e]
    ELSE dotenvy_load(f.lines, 1, e)

\* core::env::load_file
load_file(file_path, e) ==
    LET d == dotenvy_from_filename(file_path, e) IN
    IF d.res.ok THEN [res |-> Ok, env |-> d.env]
    ELSE [res |-> Err(AppError_new("Env",
                     Format("Failed to load environment file at specified path: '{}'",
                            <<file_path>>),
                     Some(d.res.err))),
          env |-> d.env]

----------------------------------------------------------------------------
(* env::validator *)

\* the orders in which a HashMap may yield the elements of S
RECURSIVE HashMapOrders(_)
HashMapOrders(S) ==
    IF S = {} THEN {<<>>}
    ELSE UNION {{<<x>> \o rest : rest \in HashMapOrders(S \ {x})} : x \in S}

\* [&str]::join
join(items, sep) == [items |-> items, sep |-> sep]

\* vars_to_validate_map of validate: name -> variable
vars_to_validate_map(vars_to_validate) ==
    [n \in {name(v) : v \in vars_to_validate} |->
        CHOOSE v \in vars_to_validate : name(v) = n]

collect_app_vars(var_prefix, e) ==
    [k \in {key \in DOMAIN e : starts_with(key, var_prefix)} |-> e[k]]

\* missing_keys that stops at the first missing key
missing_keys_first_only(loaded_vars, vars_to_validate) ==
    LET missing == {key \in DOMAIN vars_to_validate : key \notin DOMAIN loaded_vars}
    IN  IF missing = {} THEN {} ELSE {CHOOSE key \in missing : TRUE}

\* unknown_keys that stops at the first unknown key
unknown_keys_first_only(loaded_vars, vars_to_validate) ==
    LET unknown == {key \in DOMAIN loaded_vars : key \notin DOMAIN vars_to_validate}
    IN  IF unknown = {} THEN {} ELSE {CHOOSE key \in unknown : TRUE}

\* the keys check_unknown collects, and the keys check_missing collects
unknown_keys(loaded_vars, vars_to_validate) ==
    {key \in DOMAIN loaded_vars : key \notin DOMAIN vars_to_validate}

missing_keys(loaded_vars, vars_to_validate) ==
    {key \in DOMAIN vars_to_validate : key \notin DOMAIN loaded_vars}

\* keys: loaded_vars.keys() in the order the map yields them (the keys the
\* filter drops may be left out)
check_unknown(loaded_vars, vars_to_validate, keys) ==
    LET IsUnknown(key) == key \in unknown_keys(loaded_vars, vars_to_validate)
        unknown_vars == SelectSeq(keys, IsUnknown)
    IN  IF ~is_empty(unknown_vars)
        THEN Err(AppError_new("Env",
                 Format("Unknown environment variables: '{}'",
                        <<join(unknown_vars, ", ")>>),
                 None))
        ELSE Ok

\* check_missing with the message of check_unknown
check_missing_unknown_message(loaded_vars, vars_to_validate, keys) ==
    LET IsMissing(key) == key \in missing_keys(loaded_vars, vars_to_validate)
        missing_vars == SelectSeq(keys, IsMissing)
    IN  IF ~is_empty(missing_vars)
        THEN Err(AppError_new("Env",
                 Format("Unknown environment variables: '{}'",
                        <<join(missing_vars, ", ")>>),
                 None))
        ELSE Ok

\* keys: vars_to_validate.keys() in the order the map yields them (the keys
\* the filter drops may be left out)
check_missing(loaded_vars, vars_to_validate, keys) ==
    LET IsMissing(key) == key \in missing_keys(loaded_vars, vars_to_validate)
        missing_vars == SelectSeq(keys, IsMissing)
    IN  IF ~is_empty(missing_vars)
        THEN Err(AppError_new("Env",
                 Format("Missing environment variables: '{}'",
                        <<join(missing_vars, ", ")>>),
                 None))
        ELSE Ok

\* order: the variables in the order the map yields them
RECURSIVE verify_types(_, _, _)
verify_types(order, i, e) ==
    IF i > Len(order) THEN Ok
    ELSE LET r == verify(order[i], e) IN
         IF ~r.ok THEN r ELSE verify_types(order, i + 1, e)

\* orders: the iteration orders the three loops of this call happen to see
compare_required_with_process_env(var_prefix, vars_to_validate, e, orders) ==
    LET loaded_vars_with_prefix == collect_app_vars(var_prefix, e)
        u == check_unknown(loaded_vars_with_prefix, vars_to_validate, orders.unknown)
        m == check_missing(loaded_vars_with_prefix, vars_to_validate, orders.missing)
    IN  IF ~u.ok
        THEN [res |-> u, steps |-> <<"collect_app_vars", "check_unknown">>]
        ELSE [res |-> m,
              steps |-> <<"collect_app_vars", "check_unknown", "check_missing">>]

\* validate that goes on to the type check whatever the comparison said
validate_ignoring_comparison(var_prefix, vars_to_validate, e, orders) ==
    LET c == compare_required_with_process_env(
                 var_prefix, vars_to_validate_map(vars_to_validate), e, orders)
        t == verify_types(orders.types, 1, e)
    IN  [res |-> t, steps |-> c.steps \o <<"verify_types">>]

validate(var_prefix, vars_to_validate, e, orders) ==
    LET c == compare_required_with_process_env(
                 var_prefix, vars_to_validate_map(vars_to_validate), e, orders)
        t == verify_types(orders.types, 1, e)
    IN  IF ~c.res.ok THEN c
        ELSE [res |-> t, steps |-> c.steps \o <<"verify_types">>]

\* load without the ? after load_file: validation runs whatever the loader said
load_ignoring_file_error(file_path, var_prefix, vars_to_validate, e, orders) ==
    LET f == load_file(file_path, e)
        v == validate(var_prefix, vars_to_validate, f.env, orders)
    IN  [res |-> v.res, env |-> f.env, steps |-> <<"load_file">> \o v.steps]

\* load that validates the environment as it was before the file was loaded
load_stale_snapshot(file_path, var_prefix, vars_to_validate, e, orders) ==
    LET f == load_file(file_path, e)
        v == validate(var_prefix, vars_to_validate, e, orders)
    IN  IF ~f.res.ok
        THEN [res |-> f.res, env |-> f.env, steps |-> <<"load_file">>]
        ELSE [res |-> v.res, env |-> f.env, steps |-> <<"load_file">> \o v.steps]

\* load that removes the unknown variables from the environment
load_dropping_unknown(file_path, var_prefix, vars_to_validate, e, orders) ==
    LET f == load_file(file_path, e)
        v == validate(var_prefix, vars_to_validate, f.env, orders)
        unknown == unknown_keys(collect_app_vars(var_prefix, f.env),
                                vars_to_validate_map(vars_to_validate))
    IN  IF ~f.res.ok
        THEN [res |-> f.res, env |-> f.env, steps |-> <<"load_file">>]
        ELSE [res |-> v.res,
              env |-> [k \in DOMAIN f.env \ unknown |-> f.env[k]],
              steps |-> <<"load_file">> \o v.steps]

\* load that restores the environment when the validation fails
load_rolling_back(file_path, var_prefix, vars_to_validate, e, orders) ==
    LET f == load_file(file_path, e)
        v == validate(var_prefix, vars_to_validate, f.env, orders)
    IN  IF ~f.res.ok
        THEN [res |-> f.res, env |-> f.env, steps |-> <<"load_file">>]
        ELSE [res |-> v.res,
              env |-> IF v.res.ok THEN f.env ELSE e,
              steps |-> <<"load_file">> \o v.steps]

\* core::env::load
load(file_path, var_prefix, vars_to_validate, e, orders) ==
    LET f == load_file(file_path, e)
        v == validate(var_prefix, vars_to_validate, f.env, orders)
    IN  IF ~f.res.ok
        THEN [res |-> f.res, env |-> f.env, steps |-> <<"load_file">>]
        ELSE [res |-> v.res, env |-> f.env, steps |-> <<"load_file">> \o v.steps]

\* the iteration orders that matter to a call of load in environment e (the
\* one before the file is loaded).  The order of a HashMap is unspecified:
\* the unknown, or else the missing, keys come out in any order, and the
\* type check stops at the first invalid variable, which any variable can
\* be, as the rotations of the declaration order put each variable first.
\* A loop the call does not reach sees no order.
Rotations(seq) ==
    {[i \in 1..Len(seq) |-> seq[((i + r - 1) % Len(seq)) + 1]] : r \in 0..(Len(seq) - 1)}

IterationOrders(file_path, var_prefix, vars_to_validate, e) ==
    LET f == load_file(file_path, e)
        loaded == collect_app_vars(var_prefix, f.env)
        map == vars_to_validate_map(vars_to_validate)
        unknown == unknown_keys(loaded, map)
        missing == missing_keys(loaded, map)
    IN  IF ~f.res.ok
        THEN {[unknown |-> <<>>, missing |-> <<>>, types |-> <<>>]}
        ELSE IF unknown # {}
        THEN {[unknown |-> u, missing |-> <<>>, types |-> <<>>] :
                u \in HashMapOrders(unknown)}
        ELSE IF missing # {}
        THEN {[unknown |-> <<>>, missing |-> m, types |-> <<>>] :
                m \in HashMapOrders(missing)}
        ELSE {[unknown |-> <<>>, missing |-> <<>>, types |-> t] :
                t \in Rotations(RequiredEnvVarIter)}

----------------------------------------------------------------------------
(* core::config and run_app.  Paths of configuration files are written as *)
(* whole strings: nothing looks inside them.                              *)

DEFAULT_CONFIG_FILE == "./config"
CUSTOM_CONFIG_FILE == "./custom_config.toml"

\* what a configuration path can hold: nothing, a file that builds but lacks
\* a field of AppConfig, or a file that gives the three settings
MISSING == [found |-> FALSE, complete |-> FALSE, prefix |-> <<>>]
INCOMPLETE == [found |-> TRUE, complete |-> FALSE, prefix |-> <<>>]
ConfigWith(prefix) == [found |-> TRUE, complete |-> TRUE, prefix |-> prefix]

\* an AppConfig
AppConfig(prefix) ==
    [app |-> [env |-> "dev", prefix |-> prefix, env_file_path |-> <<".", "e", "n", "v">>]]

\* Config::builder().add_source(File::with_name(file_path)).build()
build_config_from_file(file_path, files) ==
    IF ~files[file_path].found
    THEN Err(AppError_new("InvalidConfig",
             Format("Failed to load configuration: {}", <<"not found">>),
             Some("not found")))
    ELSE [ok |-> TRUE, val |-> files[file_path]]

\* Config::try_deserialize::<AppConfig>
try_deserialize(config) ==
    IF config.complete THEN [ok |-> TRUE, val |-> AppConfig(config.prefix)]
    ELSE [ok |-> FALSE, err |-> "missing field"]

load_config(file_name, files) ==
    LET app_config == build_config_from_file(file_name, files) IN
    IF ~app_config.ok THEN None
    ELSE LET d == try_deserialize(app_config.val) IN
         IF d.ok THEN Some(d.val) ELSE None

\* a Lazy cell before and after its first access
Uninit == [init |-> FALSE, val |-> None]
Initialized(val) == [init |-> TRUE, val |-> val]

\* the file the closure of APP_CONFIG reads
config_file(path_cell) ==
    IF path_cell = None THEN DEFAULT_CONFIG_FILE ELSE path_cell[1]

\* Lazy::force that runs the closure on every access
Lazy_force_rereading(cell, path_cell, files) ==
    [cell |-> Initialized(load_config(config_file(path_cell), files)),
     read |-> TRUE, path |-> config_file(path_cell)]

\* Lazy::force on APP_CONFIG: the closure runs on the first access only
Lazy_force(cell, path_cell, files) ==
    IF cell.init THEN [cell |-> cell, read |-> FALSE, path |-> ""]
    ELSE [cell |-> Initialized(load_config(config_file(path_cell), files)),
          read |-> TRUE, path |-> config_file(path_cell)]

\* get_config that unwraps the configuration
get_config_unwrapping(cell, path_cell, files) ==
    LET f == Lazy_force(cell, path_cell, files) IN
    [res |-> IF f.cell.val = None
             THEN [ok |-> FALSE, panic |-> "called Option::unwrap() on a None value"]
             ELSE [ok |-> TRUE, val |-> f.cell.val[1]],
     cell |-> f.cell, read |-> f.read, path |-> f.path]

get_config(cell, path_cell, files) ==
    LET f == Lazy_force(cell, path_cell, files) IN
    [res |-> IF f.cell.val = None
             THEN Err(AppError_new("InvalidConfig",
                      Format("Configuration file is missing or failed to load", <<>>),
                      None))
             ELSE [ok |-> TRUE, val |-> f.cell.val[1]],
     cell |-> f.cell, read |-> f.read, path |-> f.path]

\* set_config_file_path that replaces a path already set
set_config_file_path_overwriting(path, path_cell) ==
    [res |-> Ok, path_cell |-> Some(path)]

\* lib::set_config_file_path: OnceCell::set fails on a cell that is set
set_config_file_path(path, path_cell) ==
    IF path_cell # None
    THEN [res |-> Err(AppError_new("ConfigFilePath",
                      Format("Failed to set configuration file path", <<>>),
                      None)),
          path_cell |-> path_cell]
    ELSE [res |-> Ok, path_cell |-> Some(path)]

\* lib::run_app: sets the path, gets the configuration and prints it;
\* printed is what it prints, if it gets that far
run_app(cell, path_cell, files) ==
    LET s == set_config_file_path(CUSTOM_CONFIG_FILE, path_cell)
        g == get_config(cell, s.path_cell, files)
    IN  IF ~s.res.ok
        THEN [res |-> s.res, printed |-> None, cell |-> cell,
              path_cell |-> s.path_cell, read |-> FALSE, path |-> ""]
        ELSE IF ~g.res.ok
        THEN [res |-> g.res, printed |-> None, cell |-> g.cell,
              path_cell |-> s.path_cell, read |-> g.read, path |-> g.path]
        ELSE [res |-> Ok, printed |-> Some(g.res.val), cell |-> g.cell,
              path_cell |-> s.path_cell, read |-> g.read, path |-> g.path]

\* the prefix before the Lazy cell APP_PREFIX is first read
UNINIT == <<"<uninit>">>

\* Lazy::force on APP_PREFIX: the prefix of the configuration, and a panic
\* when there is no configuration to take it from
APP_PREFIX_force(prefix, cell, path_cell, files) ==
    LET f == Lazy_force(cell, path_cell, files) IN
    IF prefix # UNINIT
    THEN [res |-> [ok |-> TRUE, val |-> prefix], prefix |-> prefix, cell |-> cell,
          read |-> FALSE, path |-> ""]
    ELSE IF f.cell.val = None
    THEN [res |-> Panic("no configuration"), prefix |-> prefix, cell |-> f.cell,
          read |-> f.read, path |-> f.path]
    ELSE [res |-> [ok |-> TRUE, val |-> f.cell.val[1].app.prefix],
          prefix |-> f.cell.val[1].app.prefix, cell |-> f.cell,
          read |-> f.read, path |-> f.path]

----------------------------------------------------------------------------
(* Inputs *)

MaxDeviations == 2   \* variables the file omits or gives a non-example value
MaxCalls == 2        \* calls of load in one run

APP_ == <<"A", "P", "P", "_">>
APP == <<"A", "P", "P">>
OTHER_ == <<"O", "T", "H", "E", "R", "_">>
HOME == <<"H", "O", "M", "E">>
APPDATA == <<"A", "P", "P", "D", "A", "T", "A">>
TEST == <<"T", "E", "S", "T">>
EXTRA_VAR == <<"E", "X", "T", "R", "A", "_", "V", "A", "R">>
EXTRA_VAL == <<"E", "X", "T", "R", "A", "_", "V", "A", "L">>

SECRET == <<"s", "3", "c", "r", "3", "t">>

\* the prefixes load is called with
PrefixArgs == {APP_, APP}

\* the paths load is called with
PathArgs == {ENV_FILE_PATH, NON_EXISTENT_FILE}

\* the example value of each variable, and a value its type is meant to reject
ValidValue(v) ==
    CASE v = "DbName" -> <<"t", "e", "s", "t", "_", "d", "b">>
      [] v = "DbHost" -> <<"l", "o", "c", "a", "l", "h", "o", "s", "t">>
      [] v = "DbPort" -> <<"5", "4", "3", "2">>
      [] v = "DbUser" -> <<"t", "e", "s", "t", "_", "u", "s", "e", "r">>
      [] v = "DbPass" -> <<"t", "e", "s", "t", "_", "p", "a", "s", "s">>
      [] v = "DbSslMode" -> VERIFY_FULL_SSL
      [] v = "PathToDbSslRootCert" -> CERT_FILE

InvalidValue(v) ==
    CASE v = "DbPort" -> <<"6", "5", "5", "3", "6">>
      [] v = "DbSslMode" -> <<"s", "t", "a", "g", "i", "n", "g">>
      [] v = "PathToDbSslRootCert" -> NO_SUCH_PATH
      [] OTHER -> <<>>

\* what a file says about each required variable
Templates ==
    {tpl \in [all -> {"valid", "invalid", "omit"}] :
        Cardinality({v \in all : tpl[v] # "valid"}) <= MaxDeviations}

RECURSIVE TemplateLines(_, _)
TemplateLines(tpl, i) ==
    IF i > Len(RequiredEnvVarIter) THEN <<>>
    ELSE LET v == RequiredEnvVarIter[i]
             key == construct_name(APP_, suffix_name(v))
         IN  (CASE tpl[v] = "omit" -> <<>>
                [] tpl[v] = "valid" -> <<Line(key, ValidValue(v))>>
                [] tpl[v] = "invalid" -> <<Line(key, InvalidValue(v))>>)
             \o TemplateLines(tpl, i + 1)

\* lines that may follow the required ones
ExtraLines ==
    {<<>>,
     <<Line(construct_name(APP_, EXTRA_VAR), EXTRA_VAL)>>,
     <<Line(construct_name(OTHER_, DB_PORT), <<"5", "4", "3", "2">>)>>,
     <<Line(construct_name(APP_, EXTRA_VAR), EXTRA_VAL),
       Line(construct_name(APP_, TEST), <<"x">>)>>,
     <<Malformed(<<"A", "N", "O", "T", "H", "E", "R", "_", "V", "A", "R">>)>>}

EnvFiles ==
    {[exists |-> FALSE, readable |-> FALSE, lines |-> <<>>],
     [exists |-> TRUE, readable |-> FALSE, lines |-> <<>>]}
    \cup {[exists |-> TRUE, readable |-> TRUE, lines |-> TemplateLines(tpl, 1) \o x] :
            tpl \in Templates, x \in ExtraLines}

\* what the process environment holds before the first call
InitialEnvs ==
    {[k \in {HOME} |-> <<"/">>],
     [k \in {HOME, construct_name(APP_, DB_PORT)} |->
        IF k = HOME THEN <<"/">> ELSE <<"6", "5", "5", "3", "6">>],
     [k \in {HOME, construct_name(OTHER_, DB_PORT)} |->
        IF k = HOME THEN <<"/">> ELSE <<"5", "4", "3", "2">>],
     [k \in {HOME, construct_name(APP_, EXTRA_VAR)} |->
        IF k = HOME THEN <<"/">> ELSE EXTRA_VAL],
     [k \in {HOME, APPDATA} |-> <<"/">>],
     [k \in {HOME, construct_name(APP_, DB_PASS)} |->
        IF k = HOME THEN <<"/">> ELSE SECRET]}

NoCall == [file_path |-> <<>>, var_prefix |-> <<>>, before |-> <<>>, steps |-> <<>>]
NoResult == [ok |-> FALSE, pending |-> TRUE]
NoInput == [type |-> String, val |-> <<>>]
NoErrors == [a |-> AppError_new("Env", "", None), b |-> AppError_new("Env", "", None)]

\* the configuration as the reconciler finds it: read from the default
\* file, which gives the prefix APP_
ConfigLoaded ==
    /\ CONFIG_FILE_PATH = None
    /\ APP_CONFIG = Initialized(Some(AppConfig(APP_)))
    /\ configFiles = [p \in {DEFAULT_CONFIG_FILE, CUSTOM_CONFIG_FILE} |->
                        IF p = DEFAULT_CONFIG_FILE THEN ConfigWith(APP_) ELSE MISSING]
    /\ accesses = <<>>

----------------------------------------------------------------------------
(* The reconciler *)

Init ==
    /\ env \in InitialEnvs
    /\ envFile \in EnvFiles
    /\ APP_PREFIX = APP_
    /\ result = NoResult
    /\ call = NoCall
    /\ previous = [result |-> NoResult, call |-> NoCall]
    /\ calls = 0
    /\ input = NoInput
    /\ verified = NoResult
    /\ registry = <<>>
    /\ errors = NoErrors
    /\ equal = NoResult
    /\ ConfigLoaded

\* one call load(file_path, var_prefix, RequiredEnvVar::all())
Load(file_path, var_prefix) ==
    /\ calls < MaxCalls
    /\ \E orders \in IterationOrders(file_path, var_prefix, all, env) :
          LET l == load(file_path, var_prefix, all, env, orders) IN
          /\ env' = l.env
          /\ result' = l.res
          /\ call' = [file_path |-> file_path, var_prefix |-> var_prefix,
                      before |-> env, steps |-> l.steps]
    /\ previous' = [result |-> result, call |-> call]
    /\ calls' = calls + 1
    /\ UNCHANGED <<envFile, APP_PREFIX, input, verified, registry>>
    /\ UNCHANGED <<errVars, configVars>>

Next == \E file_path \in PathArgs, var_prefix \in PrefixArgs : Load(file_path, var_prefix)

Spec == Init /\ [][Next]_vars

----------------------------------------------------------------------------
(* The type verifier on its own *)

DEVELOPMENT == <<"d", "e", "v", "e", "l", "o", "p", "m", "e", "n", "t">>
PRODUCTION == <<"p", "r", "o", "d", "u", "c", "t", "i", "o", "n">>

SslModes ==
    <<DISABLE_SSL, ALLOW_SSL, PREFER_SSL, REQUIRE_SSL, VERIFY_CA_SSL, VERIFY_FULL_SSL>>

AppTypes == {String, U16, Enum(SslModes), Enum(<<DEVELOPMENT, PRODUCTION>>), FilePath}

Values ==
    {<<>>, <<"a", "b", "c">>, <<"1", "2", "3">>, <<"0">>, <<" ">>,
     <<"6", "5", "5", "3", "5">>, <<"6", "5", "5", "3", "6">>,
     <<"9", "9", "9", "9", "9">>, <<"6", "5", "5", "3", "5", "0">>,
     <<"0", "0", "0", "8", "0">>, <<"-", "1">>, <<"+", "5">>, <<"+">>,
     <<"1", "2", ".", "3">>, <<"1", "2", "x">>, <<" ", "1", "2">>,
     DISABLE_SSL, ALLOW_SSL, PREFER_SSL, REQUIRE_SSL, VERIFY_CA_SSL,
     VERIFY_FULL_SSL, <<"R", "e", "q", "u", "i", "r", "e">>,
     <<"r", "e", "q", "u", "i", "r", "e", " ">>, <<"t", "u", "r", "b", "o">>,
     DEVELOPMENT, PRODUCTION, <<"s", "t", "a", "g", "i", "n", "g">>,
     CERT_FILE, UNREADABLE_FILE, DIRECTORY, NO_SUCH_PATH}

InitTypes ==
    /\ env = [k \in {HOME} |-> <<"/">>]
    /\ envFile = [exists |-> FALSE, readable |-> FALSE, lines |-> <<>>]
    /\ APP_PREFIX = APP_
    /\ result = NoResult
    /\ call = NoCall
    /\ previous = [result |-> NoResult, call |-> NoCall]
    /\ calls = 0
    /\ input \in [type : AppTypes, val : Values]
    /\ verified = NoResult
    /\ registry = <<>>
    /\ errors = NoErrors
    /\ equal = NoResult
    /\ ConfigLoaded

\* one call input.type.verify(input.val)
Verify ==
    /\ verified = NoResult
    /\ verified' = AppType_verify(input.type, input.val)
    /\ UNCHANGED <<env, envFile, APP_PREFIX, result, call, previous, calls, input,
                   registry>>
    /\ UNCHANGED <<errVars, configVars>>

NextTypes == Verify

SpecTypes == InitTypes /\ [][NextTypes]_vars

----------------------------------------------------------------------------
(* The schema registry on its own *)

\* the environment a template describes: each required variable at its
\* example value, at a value its type is meant to reject, or unset
EnvOf(tpl) ==
    [k \in {HOME} \cup {construct_name(APP_, suffix_name(v)) :
                            v \in {w \in all : tpl[w] # "omit"}} |->
        IF k = HOME THEN <<"/">>
        ELSE LET v == CHOOSE w \in all : construct_name(APP_, suffix_name(w)) = k
             IN  IF tpl[v] = "valid" THEN ValidValue(v) ELSE InvalidValue(v)]

InitRegistry ==
    /\ env \in {EnvOf(tpl) : tpl \in Templates}
    /\ envFile = [exists |-> FALSE, readable |-> FALSE, lines |-> <<>>]
    /\ APP_PREFIX = APP_
    /\ result = NoResult
    /\ call = NoCall
    /\ previous = [result |-> NoResult, call |-> NoCall]
    /\ calls = 0
    /\ input = NoInput
    /\ verified = NoResult
    /\ registry = <<>>
    /\ errors = NoErrors
    /\ equal = NoResult
    /\ ConfigLoaded

\* one call RequiredEnvVar::all(), with the name and the type of each variable
All ==
    /\ Len(registry) < MaxCalls
    /\ registry' = Append(registry,
          [op |-> "all", var |-> "*",
           res |-> [v \in all |-> [name |-> name(v), type |-> type_(v)]]])
    /\ UNCHANGED <<env, envFile, APP_PREFIX, result, call, previous, calls, input,
                   verified>>
    /\ UNCHANGED <<errVars, configVars>>

\* one call v.verify()
VerifyVar(v) ==
    /\ Len(registry) < MaxCalls
    /\ registry' = Append(registry, [op |-> "verify", var |-> v, res |-> verify(v, env)])
    /\ UNCHANGED <<env, envFile, APP_PREFIX, result, call, previous, calls, input,
                   verified>>
    /\ UNCHANGED <<errVars, configVars>>

\* one call RequiredEnvVar::verify_all(): the HashSet built by all() yields
\* the variables in an order of its own
VerifyAll ==
    /\ Len(registry) < MaxCalls
    /\ \E vars_ \in Rotations(RequiredEnvVarIter) :
          registry' = Append(registry,
              [op |-> "verify_all", var |-> "*", res |-> verify_all(vars_, 1, env)])
    /\ UNCHANGED <<env, envFile, APP_PREFIX, result, call, previous, calls, input,
                   verified>>
    /\ UNCHANGED <<errVars, configVars>>

NextRegistry ==
    \/ All
    \/ \E v \in all : VerifyVar(v)
    \/ VerifyAll

SpecRegistry == InitRegistry /\ [][NextRegistry]_vars

----------------------------------------------------------------------------
(* Equality of errors on its own *)

ErrorKinds == {"Env", "Parse"}

ErrorMessages ==
    {"Error loading environment variables", "Error parsing environment variables"}

\* the sources: none, the two errors of test_app_error_new_with_source, and
\* the error of a failed parse
ErrorSources ==
    {None, Some("source_err"), Some("source_err_copy"),
     Some("invalid digit found in string")}

AppErrors ==
    {AppError_new(k, m, src) : k \in ErrorKinds, m \in ErrorMessages, src \in ErrorSources}

InitErrors ==
    /\ env = [k \in {HOME} |-> <<"/">>]
    /\ envFile = [exists |-> FALSE, readable |-> FALSE, lines |-> <<>>]
    /\ APP_PREFIX = APP_
    /\ result = NoResult
    /\ call = NoCall
    /\ previous = [result |-> NoResult, call |-> NoCall]
    /\ calls = 0
    /\ input = NoInput
    /\ verified = NoResult
    /\ registry = <<>>
    /\ errors \in [a : AppErrors, b : AppErrors]
    /\ equal = NoResult
    /\ ConfigLoaded

\* one evaluation of errors.a == errors.b
Eq ==
    /\ equal = NoResult
    /\ equal' = [ok |-> TRUE, eq |-> AppError_eq(errors.a, errors.b)]
    /\ UNCHANGED <<env, envFile, APP_PREFIX, result, call, previous, calls, input,
                   verified, registry, errors>>
    /\ UNCHANGED configVars

NextErrors == Eq

SpecErrors == InitErrors /\ [][NextErrors]_vars

----------------------------------------------------------------------------
(* The configuration on its own: the calls a process makes on             *)
(* CONFIG_FILE_PATH, APP_CONFIG and APP_PREFIX, recorded in accesses, and  *)
(* the changes made to the configuration files meanwhile.                 *)

MaxAccesses == 3     \* calls on the configuration in one run

ConfigPaths == {DEFAULT_CONFIG_FILE, CUSTOM_CONFIG_FILE}

ConfigContents == {MISSING, INCOMPLETE, ConfigWith(APP_), ConfigWith(APP)}

InitConfig ==
    /\ env = [k \in {HOME} |-> <<"/">>]
    /\ envFile = [exists |-> FALSE, readable |-> FALSE, lines |-> <<>>]
    /\ APP_PREFIX = UNINIT
    /\ result = NoResult
    /\ call = NoCall
    /\ previous = [result |-> NoResult, call |-> NoCall]
    /\ calls = 0
    /\ input = NoInput
    /\ verified = NoResult
    /\ registry = <<>>
    /\ errors = NoErrors
    /\ equal = NoResult
    /\ CONFIG_FILE_PATH = None
    /\ APP_CONFIG = Uninit
    /\ configFiles \in [ConfigPaths -> ConfigContents]
    /\ accesses = <<>>

\* what a call leaves in accesses: its outcome, what it printed, the path
\* cell before and after it, whether it read a configuration file, and
\* which file with which content
Access(op, arg, res, printed, before, after, read, path) ==
    [op |-> op, arg |-> arg, res |-> res, printed |-> printed,
     before |-> before, after |-> after, read |-> read, path |-> path,
     file |-> IF read THEN configFiles[path] ELSE MISSING]

\* one call set_config_file_path(path)
SetConfigFilePath(path) ==
    /\ Len(accesses) < MaxAccesses
    /\ LET r == set_config_file_path(path, CONFIG_FILE_PATH) IN
       /\ CONFIG_FILE_PATH' = r.path_cell
       /\ accesses' = Append(accesses,
             Access("set", path, r.res, None, CONFIG_FILE_PATH, r.path_cell, FALSE, ""))
    /\ UNCHANGED <<env, envFile, APP_PREFIX, result, call, previous, calls, input,
                   verified, registry, APP_CONFIG, configFiles>>
    /\ UNCHANGED errVars

\* one call get_config()
GetConfig ==
    /\ Len(accesses) < MaxAccesses
    /\ LET r == get_config(APP_CONFIG, CONFIG_FILE_PATH, configFiles) IN
       /\ APP_CONFIG' = r.cell
       /\ accesses' = Append(accesses,
             Access("get", "", r.res, None, CONFIG_FILE_PATH, CONFIG_FILE_PATH, r.read, r.path))
    /\ UNCHANGED <<env, envFile, APP_PREFIX, result, call, previous, calls, input,
                   verified, registry, CONFIG_FILE_PATH, configFiles>>
    /\ UNCHANGED errVars

\* one call run_app()
RunApp ==
    /\ Len(accesses) < MaxAccesses
    /\ LET r == run_app(APP_CONFIG, CONFIG_FILE_PATH, configFiles) IN
       /\ APP_CONFIG' = r.cell
       /\ CONFIG_FILE_PATH' = r.path_cell
       /\ accesses' = Append(accesses,
             Access("run_app", "", r.res, r.printed, CONFIG_FILE_PATH, r.path_cell, r.read, r.path))
    /\ UNCHANGED <<env, envFile, APP_PREFIX, result, call, previous, calls, input,
                   verified, registry, configFiles>>
    /\ UNCHANGED errVars

\* one read of *APP_PREFIX
AccessPrefix ==
    /\ Len(accesses) < MaxAccesses
    /\ LET r == APP_PREFIX_force(APP_PREFIX, APP_CONFIG, CONFIG_FILE_PATH, configFiles) IN
       /\ APP_PREFIX' = r.prefix
       /\ APP_CONFIG' = r.cell
       /\ accesses' = Append(accesses,
             Access("prefix", "", r.res, None, CONFIG_FILE_PATH, CONFIG_FILE_PATH, r.read, r.path))
    /\ UNCHANGED <<env, envFile, result, call, previous, calls, input,
                   verified, registry, CONFIG_FILE_PATH, configFiles>>
    /\ UNCHANGED errVars

\* somebody rewrites, creates or removes a configuration file
ChangeConfigFile(path, content) ==
    /\ content # configFiles[path]
    /\ configFiles' = [configFiles EXCEPT ![path] = content]
    /\ UNCHANGED <<env, envFile, APP_PREFIX, result, call, previous, calls, input,
                   verified, registry, CONFIG_FILE_PATH, APP_CONFIG, accesses>>
    /\ UNCHANGED errVars

NextConfig ==
    \/ \E path \in ConfigPaths : SetConfigFilePath(path)
    \/ GetConfig
    \/ RunApp
    \/ AccessPrefix
    \/ \E path \in ConfigPaths : \E content \in ConfigContents :
          ChangeConfigFile(path, content)

SpecConfig == InitConfig /\ [][NextConfig]_vars

----------------------------------------------------------------------------
(* Vocabulary of the properties *)

\* a call of load has returned
Returned == calls > 0

\* the keys of the schema, as the registry names them
RequiredNames == {APP_PREFIX \o suffix_name(v) : v \in all}

\* the environment file of the last call cannot be loaded
FileFails(file_path) ==
    LET f == file_at(file_path) IN
    \/ ~f.exists
    \/ ~f.readable
    \/ \E i \in 1..Len(f.lines) : f.lines[i].val = None

\* the snapshot of the last call: the keys of the environment under its prefix
SnapshotKeys ==
    {k \in DOMAIN env : Len(k) >= Len(call.var_prefix)
                        /\ \A i \in 1..Len(call.var_prefix) : k[i] = call.var_prefix[i]}

\* a string of decimal digits and the number it writes
IsDecimal(val) ==
    /\ val # <<>>
    /\ \A i \in 1..Len(val) :
          val[i] \in {"0", "1", "2", "3", "4", "5", "6", "7", "8", "9"}

RECURSIVE DecimalValue(_)
DecimalValue(val) ==
    IF val = <<>> THEN 0
    ELSE 10 * DecimalValue(SubSeq(val, 1, Len(val) - 1))
         + (CHOOSE d \in 0..9 : Digits[d + 1] = val[Len(val)])

\* the rule of each declared type
Satisfies(v, val) ==
    CASE v \in {"DbName", "DbHost", "DbUser", "DbPass"} -> val # <<>>
      [] v = "DbPort" -> IsDecimal(val) /\ DecimalValue(val) <= 65535
      [] v = "DbSslMode" ->
            val \in {DISABLE_SSL, ALLOW_SSL, PREFER_SSL, REQUIRE_SSL,
                     VERIFY_CA_SSL, VERIFY_FULL_SSL}
      [] v = "PathToDbSslRootCert" -> val = CERT_FILE

\* the failure category of an outcome, by the step that produced it
Category(r, c) ==
    IF r.ok \/ c.steps = <<>> THEN "none"
    ELSE c.steps[Len(c.steps)]

IsError(r, tmpl) ==
    /\ ~r.ok
    /\ "err" \in DOMAIN r
    /\ r.err.message.tmpl = tmpl

MissingTmpl == "Missing environment variables: '{}'"
UnknownTmpl == "Unknown environment variables: '{}'"
FileTmpl == "Failed to load environment file at specified path: '{}'"

\* the names an error lists
Listed(r) == LET l == r.err.message.args[1].items IN {l[i] : i \in 1..Len(l)}

----------------------------------------------------------------------------
(* Properties *)

\* C1: whenever load returns success, every required variable is in the
\* process environment under its prefixed name with a value that satisfies
\* the rule of its declared type (the certificate path being an existing,
\* readable regular file).
C1_SuccessMeansSchemaSatisfied ==
    (Returned /\ result = Ok) =>
        \A v \in all :
            /\ APP_PREFIX \o suffix_name(v) \in DOMAIN env
            /\ Satisfies(v, env[APP_PREFIX \o suffix_name(v)])

\* C2: when the environment file cannot be loaded, load returns the
\* environment-file error: its message holds the attempted path, its source
\* is the loader's error, and no unknown, missing or type check has run.
C2_FileFailureFailsFast ==
    (Returned /\ FileFails(call.file_path)) =>
        /\ IsError(result, FileTmpl)
        /\ result.err.message.args = <<call.file_path>>
        /\ result.err.source \in {Some("Io(NotFound)"), Some("Io(PermissionDenied)"),
                                  Some("LineParse")}
        /\ call.steps = <<"load_file">>

\* a malformed last line made the call fail after the lines before it were read
C2_Witness ==
    /\ Returned
    /\ file_at(call.file_path).exists
    /\ file_at(call.file_path).readable
    /\ FileFails(call.file_path)
    /\ result.err.source = Some("LineParse")
    /\ call.steps = <<"load_file">>

\* the file of the last call assigns a value to the key
FileAssigns(file_path, key) ==
    LET f == file_at(file_path) IN
    \E i \in 1..Len(f.lines) : f.lines[i].key = key /\ f.lines[i].val # None

\* the value the first such line assigns
FileValue(file_path, key) ==
    LET f == file_at(file_path)
        i == CHOOSE j \in 1..Len(f.lines) :
                /\ f.lines[j].key = key
                /\ \A h \in 1..(j - 1) : f.lines[h].key # key
    IN  f.lines[i].val[1]

\* the last call got past the load of its file
Reconciled == Returned /\ ~FileFails(call.file_path)

\* C3: in an environment where a required variable is absent and another
\* one is present with a value invalid for its type, validate returns the
\* missing-variable error, and no value is type-verified.
C3_MissingBeforeType ==
    (/\ Reconciled
     /\ \E v \in all : APP_PREFIX \o suffix_name(v) \notin DOMAIN env
     /\ \E w \in all :
           /\ APP_PREFIX \o suffix_name(w) \in DOMAIN env
           /\ ~Satisfies(w, env[APP_PREFIX \o suffix_name(w)]))
    => /\ IsError(result, MissingTmpl)
       /\ \A i \in 1..Len(call.steps) : call.steps[i] # "verify_types"

C5_ExtraVariableAccepted ==
    (/\ Reconciled
     /\ \A v \in all :
           /\ APP_PREFIX \o suffix_name(v) \in DOMAIN env
           /\ Satisfies(v, env[APP_PREFIX \o suffix_name(v)])
     /\ SnapshotKeys \ RequiredNames # {})
    => result = Ok

\* C6: when the environment under the prefix holds an undeclared variable
\* and lacks a required one, load fails with the missing-variables error
\* that names the absent required variables.
C6_MissingReportedDespiteExtra ==
    (/\ Reconciled
     /\ SnapshotKeys \ RequiredNames # {}
     /\ RequiredNames \ SnapshotKeys # {})
    => /\ IsError(result, MissingTmpl)
       /\ Listed(result) = RequiredNames \ SnapshotKeys

\* C7: only the variables whose name starts with the prefix are reconciled:
\* no other name is reported as unknown, and a required variable defined
\* under another prefix only is reported as missing.
C7_OnlyPrefixedVariablesCount ==
    Reconciled =>
        /\ IsError(result, UnknownTmpl) =>
              \A k \in Listed(result) :
                 SubSeq(k, 1, Len(call.var_prefix)) = call.var_prefix
        /\ \A v \in all :
              (/\ APP_PREFIX \o suffix_name(v) \notin DOMAIN env
               /\ OTHER_ \o suffix_name(v) \in DOMAIN env)
              => /\ IsError(result, MissingTmpl)
                 /\ APP_PREFIX \o suffix_name(v) \in Listed(result)

\* C8: the snapshot is taken after the file is loaded: a required variable
\* that was not in the environment before the call and that the file
\* assigns is not reported missing, and when the file supplies a valid
\* value for every required variable and nothing else is under the prefix,
\* that same call succeeds.
C8_SnapshotTakenAfterLoad ==
    Reconciled =>
        /\ \A v \in all :
              (/\ APP_PREFIX \o suffix_name(v) \notin DOMAIN call.before
               /\ FileAssigns(call.file_path, APP_PREFIX \o suffix_name(v)))
              => ~(/\ IsError(result, MissingTmpl)
                   /\ APP_PREFIX \o suffix_name(v) \in Listed(result))
        /\ (/\ \A v \in all :
                  /\ APP_PREFIX \o suffix_name(v) \notin DOMAIN call.before
                  /\ FileAssigns(call.file_path, APP_PREFIX \o suffix_name(v))
                  /\ Satisfies(v, FileValue(call.file_path, APP_PREFIX \o suffix_name(v)))
            /\ SnapshotKeys \subseteq RequiredNames)
           => result = Ok

\* the first call found none of the variables set, read all of them from
\* the file and succeeded
C8_Witness ==
    /\ calls = 1
    /\ Reconciled
    /\ \A v \in all :
          /\ APP_PREFIX \o suffix_name(v) \notin DOMAIN call.before
          /\ FileAssigns(call.file_path, APP_PREFIX \o suffix_name(v))
    /\ result = Ok

\* the last two calls both failed, in different categories
TwoCategories ==
    /\ calls >= 2
    /\ ~result.ok
    /\ ~previous.result.ok
    /\ Category(result, call) # Category(previous.result, previous.call)

C10_TextAcceptsNonEmpty ==
    (verified # NoResult /\ input.type = String) =>
        (verified = Ok <=> input.val # <<>>)

\* a value made of digits was accepted as a String
C10_Witness ==
    /\ input.type = String
    /\ input.val = <<"1", "2", "3">>
    /\ verified = Ok

\* a call of AppType::verify has returned
Verified == verified # NoResult

\* C11: AppType::U16 accepts exactly the values written as decimal digits
\* only (no sign, no fraction, no other character) that denote a number in
\* 0..65535; a value carrying a sign character is rejected.
C11_U16AcceptsUnsignedDecimal ==
    (Verified /\ input.type = U16) =>
        (verified = Ok <=> (IsDecimal(input.val) /\ DecimalValue(input.val) <= 65535))

\* the elements of an allowed list
Allowed(t) == {t.allowed[i] : i \in 1..Len(t.allowed)}

\* C12: an Enum type accepts exactly the values equal to an element of its
\* allowed list; a value that differs from an element in letter case or in
\* surrounding whitespace is rejected.
C12_EnumExactMatch ==
    (Verified /\ input.type.tag = "Enum") =>
        (verified = Ok <=> input.val \in Allowed(input.type))

\* "Require" and "require " were rejected by the type that allows "require"
C12_Witness ==
    /\ Verified
    /\ input.type = Enum(SslModes)
    /\ input.val \in {<<"R", "e", "q", "u", "i", "r", "e">>,
                      <<"r", "e", "q", "u", "i", "r", "e", " ">>}
    /\ ~verified.ok

\* the path names an existing regular file that can be opened for reading
ExistingReadableFile(p) ==
    /\ p # <<>>
    /\ path_exists(p)
    /\ path_is_file(p)
    /\ file_open(p).ok

\* C13: AppType::FilePath accepts exactly the paths of existing regular
\* files that can be opened for reading; the empty path, a path where
\* nothing exists, a directory and a file that cannot be opened are rejected.
C13_FilePathAcceptsReadableFiles ==
    (Verified /\ input.type = FilePath) =>
        /\ verified = Ok <=> ExistingReadableFile(input.val)
        /\ input.val \in {<<>>, NO_SUCH_PATH, DIRECTORY, UNREADABLE_FILE} => ~verified.ok

\* a regular file that cannot be opened was rejected
C13_Witness ==
    /\ Verified
    /\ input.type = FilePath
    /\ input.val = UNREADABLE_FILE
    /\ ~verified.ok

\* the errors str::parse::<u16> and File::open can give
ParseErrors == {"Empty", "InvalidDigit", "PosOverflow"}
OpenErrors == {"PermissionDenied"}

\* C14: a failure of the type verifier has kind InvalidValueType and a
\* message built from the type and the value; it carries a cause exactly
\* when it is a U16 parse failure (the parse error) or a failure to open an
\* existing regular file (the OS error).
C14_CauseOnlyForParseAndOpen ==
    (Verified /\ ~verified.ok) =>
        /\ verified.err.kind = "InvalidValueType"
        /\ verified.err.message.args = <<"INVALID_VALUE_FOR_TYPE", input.type, input.val>>
        /\ CASE input.type.tag = "U16" ->
                   verified.err.source \in {Some(e) : e \in ParseErrors}
             [] input.type.tag = "FilePath" /\ path_is_file(input.val) ->
                   verified.err.source \in {Some(e) : e \in OpenErrors}
             [] OTHER -> verified.err.source = None
        /\ (input.type = U16 /\ input.val = <<>>) => verified.err.source = Some("Empty")
        /\ (input.type = U16 /\ input.val = <<"6", "5", "5", "3", "6">>)
              => verified.err.source = Some("PosOverflow")
        /\ (input.type = U16 /\ input.val = <<"-", "1">>)
              => verified.err.source = Some("InvalidDigit")

\* "65536" was rejected as a U16 with the overflow of the parse as its cause
C14_Witness ==
    /\ Verified
    /\ input.type = U16
    /\ input.val = <<"6", "5", "5", "3", "6">>
    /\ ~verified.ok
    /\ verified.err.source = Some("PosOverflow")

\* the calls of an operation of the registry made so far
CallsOf(op) == {i \in 1..Len(registry) : registry[i].op = op}

\* C15: RequiredEnvVar::verify on a variable that is set returns what
\* AppType::verify returns for the type and the value of that variable:
\* success for success, and the same error for a failure.
C15_RegistryDelegatesToTypeVerifier ==
    \A i \in CallsOf("verify") :
        LET v == registry[i].var IN
        APP_PREFIX \o suffix_name(v) \in DOMAIN env =>
            registry[i].res = AppType_verify(type_(v), env[APP_PREFIX \o suffix_name(v)])

\* the catalog of the schema
Catalog ==
    [v \in {"DbName", "DbHost", "DbPort", "DbUser", "DbPass", "DbSslMode",
            "PathToDbSslRootCert"} |->
        CASE v = "DbName" -> [name |-> APP_PREFIX \o DB_NAME, type |-> String]
          [] v = "DbHost" -> [name |-> APP_PREFIX \o DB_HOST, type |-> String]
          [] v = "DbPort" -> [name |-> APP_PREFIX \o DB_PORT, type |-> U16]
          [] v = "DbUser" -> [name |-> APP_PREFIX \o DB_USER, type |-> String]
          [] v = "DbPass" -> [name |-> APP_PREFIX \o DB_PASS, type |-> String]
          [] v = "DbSslMode" ->
                [name |-> APP_PREFIX \o DB_SSL_MODE,
                 type |-> Enum(<<DISABLE_SSL, ALLOW_SSL, PREFER_SSL, REQUIRE_SSL,
                                 VERIFY_CA_SSL, VERIFY_FULL_SSL>>)]
          [] v = "PathToDbSslRootCert" ->
                [name |-> APP_PREFIX \o PATH_TO_DB_SSL_ROOT_CERT, type |-> FilePath]]

\* C16: all() is the catalog of seven variables with their declared types,
\* whose names are pairwise distinct, and every call of all() returns it.
C16_SchemaIsFixedCatalog ==
    \A i \in CallsOf("all") :
        /\ registry[i].res = Catalog
        /\ Cardinality(DOMAIN registry[i].res) = 7
        /\ Cardinality({registry[i].res[v].name : v \in DOMAIN registry[i].res}) = 7
        /\ \A j \in CallsOf("all") : registry[j].res = registry[i].res

\* all() was called again after a verification and returned the catalog
C16_Witness ==
    /\ Len(registry) >= 2
    /\ registry[1].op # "all"
    /\ registry[Len(registry)].op = "all"
    /\ registry[Len(registry)].res["DbPort"].type = U16

\* C17: the names a call of load requires and reads are the prefix passed
\* to that call followed by each suffix name: the names a missing-variables
\* error lists are among them, and after a success each of them is set.
C17_NamesUseTheCallsPrefix ==
    Returned =>
        /\ IsError(result, MissingTmpl) =>
              Listed(result) \subseteq {call.var_prefix \o suffix_name(v) : v \in all}
        /\ result = Ok =>
              \A v \in all : call.var_prefix \o suffix_name(v) \in DOMAIN env

\* C18: verify and verify_all on an environment where a required variable
\* is unset return an error value; the process is not aborted.
C18_UnsetVariableIsAnError ==
    \A i \in CallsOf("verify") \cup CallsOf("verify_all") :
        ~registry[i].res.ok => "err" \in DOMAIN registry[i].res

\* the required variables whose value verify rejects, and the earliest of
\* them in declaration order
InvalidVars == {v \in all : ~verify(v, env).ok}
EarliestInvalid ==
    RequiredEnvVarIter[CHOOSE i \in 1..Len(RequiredEnvVarIter) :
        /\ RequiredEnvVarIter[i] \in InvalidVars
        /\ \A h \in 1..(i - 1) : RequiredEnvVarIter[h] \notin InvalidVars]

\* C19: on an environment where every required variable is set, repeated
\* calls of verify_all return the same outcome, and a failure is the error
\* of the earliest invalid variable in declaration order.
C19_VerifyAllIsDeterministic ==
    (\A v \in all : APP_PREFIX \o suffix_name(v) \in DOMAIN env) =>
        \A i \in CallsOf("verify_all") :
            /\ \A j \in CallsOf("verify_all") : registry[j].res = registry[i].res
            /\ InvalidVars # {} => registry[i].res = verify(EarliestInvalid, env)

\* C20: two successive calls of load with the same file path and the same
\* prefix have the same outcome: success twice, or errors of the same kind
\* and the same message.
C20_LoadIsIdempotent ==
    (/\ calls >= 2
     /\ call.file_path = previous.call.file_path
     /\ call.var_prefix = previous.call.var_prefix)
    => \/ result = Ok /\ previous.result = Ok
       \/ /\ ~result.ok
          /\ ~previous.result.ok
          /\ result.err.kind = previous.result.err.kind
          /\ result.err.message = previous.result.err.message

\* the lines of a file that dotenvy reads before it stops
LinesRead(file_path) ==
    LET f == file_at(file_path)
        bad == {i \in 1..Len(f.lines) : f.lines[i].val = None}
    IN  IF bad = {} THEN f.lines
        ELSE SubSeq(f.lines, 1, (CHOOSE i \in bad : \A j \in bad : i <= j) - 1)

\* the environment once the lines read are merged into it: a variable
\* that is set keeps its value, a new one takes the first value given
MergedEnv(before, lines) ==
    [k \in DOMAIN before \cup {lines[i].key : i \in 1..Len(lines)} |->
        IF k \in DOMAIN before THEN before[k]
        ELSE lines[CHOOSE i \in 1..Len(lines) :
                      /\ lines[i].key = k
                      /\ \A h \in 1..(i - 1) : lines[h].key # k].val[1]]

\* C21: the environment after a call of load is the environment before it
\* with the lines of the file merged in: the snapshot and the unknown,
\* missing and type checks change no variable, whether they succeed or fail.
C21_OnlyTheLoadStepWrites ==
    Returned => env = MergedEnv(call.before, LinesRead(call.file_path))

\* a call merged variables from the file and then failed in a check
C21_Witness ==
    /\ Returned
    /\ env # call.before
    /\ ~result.ok
    /\ Category(result, call) \in {"check_unknown", "check_missing", "verify_types"}
    /\ DOMAIN call.before = {HOME}

\* the strings the message of an error shows: the names it lists, the path
\* or the value substituted into it (a type is shown by its Debug form)
Shown(r) ==
    CASE r.err.message.tmpl \in {MissingTmpl, UnknownTmpl} -> Listed(r)
      [] r.err.message.tmpl = "Value cannot be empty for type: {:?}" -> {}
      [] OTHER -> {r.err.message.args[1]}

\* the failures of verify among the calls made on the registry
FailedVerify ==
    {i \in CallsOf("verify") : ~registry[i].res.ok /\ "err" \in DOMAIN registry[i].res}

\* C22: an invalid-value error names the variable that failed: its message
\* holds the prefixed name, so two different variables never give the same
\* error.
C22_InvalidValueErrorNamesVariable ==
    \A i \in FailedVerify :
        /\ APP_PREFIX \o suffix_name(registry[i].var) \in Shown(registry[i].res)
        /\ \A j \in FailedVerify :
              registry[j].var # registry[i].var => registry[j].res # registry[i].res

\* the environment with another value for one variable
Replace(e, key, val) == [k \in DOMAIN e |-> IF k = key THEN val ELSE e[k]]

\* other passwords
OtherSecrets == {<<"1", "2", "3", "4">>, <<"p">>, <<"t", "e", "s", "t", "_", "d", "b">>}


C26_UnknownListIsSetDifference ==
    IsError(result, UnknownTmpl) =>
        LET l == result.err.message.args[1].items IN
        /\ {l[i] : i \in 1..Len(l)} = SnapshotKeys \ RequiredNames
        /\ Len(l) = Cardinality(SnapshotKeys \ RequiredNames)
        /\ {l[i] : i \in 1..Len(l)} \cap RequiredNames = {}

\* two undeclared variables are under the prefix and both are reported
C26_Witness ==
    /\ IsError(result, UnknownTmpl)
    /\ Cardinality(Listed(result)) = 2
    /\ APP_ \o EXTRA_VAR \in Listed(result)
    /\ RequiredNames \cap SnapshotKeys # {}

\* C27: a call of load returns success or one error and never aborts on an
\* unset variable: when the type check runs, every required variable is in
\* the environment.
C27_LoadNeverAbortsOnUnset ==
    Returned =>
        /\ result = Ok \/ (~result.ok /\ "err" \in DOMAIN result)
        /\ (\E i \in 1..Len(call.steps) : call.steps[i] = "verify_types")
              => \A v \in all : APP_PREFIX \o suffix_name(v) \in DOMAIN env

\* the type check ran on a snapshot taken with a prefix shorter than the
\* registry's and returned an error
C27_Witness ==
    /\ Returned
    /\ call.var_prefix = APP
    /\ call.steps[Len(call.steps)] = "verify_types"
    /\ ~result.ok
    /\ "err" \in DOMAIN result

\* C29: a failed validation does not undo the load step: after a call whose
\* file was loaded and whose validation failed, every variable the file
\* assigns is in the environment, a new one with the value of the file, and
\* each step of the call ran once.
C29_FailedValidationKeepsLoadedVariables ==
    (Reconciled /\ ~result.ok) =>
        /\ \A k \in {l.key : l \in {LinesRead(call.file_path)[i] :
                                        i \in 1..Len(LinesRead(call.file_path))}} :
              /\ k \in DOMAIN env
              /\ k \notin DOMAIN call.before => env[k] = FileValue(call.file_path, k)
        /\ Cardinality({i \in 1..Len(call.steps) : call.steps[i] = "load_file"}) = 1
        /\ Cardinality({call.steps[i] : i \in 1..Len(call.steps)}) = Len(call.steps)

\* the missing check failed and the variables of the file stayed
C29_Witness ==
    /\ Reconciled
    /\ IsError(result, MissingTmpl)
    /\ APP_ \o DB_NAME \notin DOMAIN call.before
    /\ APP_ \o DB_NAME \in DOMAIN env

\* the comparison has been made
Compared == equal # NoResult

\* C25: two errors compare equal exactly when their kinds are equal, their
\* messages are equal, and their sources are both absent or both present
\* with the same display string; errors built from equal arguments are
\* equal, errors of different kind or message are not.
C25_EqualityOfErrors ==
    Compared =>
        LET a == errors.a
            b == errors.b
        IN  /\ equal.eq <=>
                /\ a.kind = b.kind
                /\ a.message = b.message
                /\ \/ a.source = None /\ b.source = None
                   \/ /\ a.source # None
                      /\ b.source # None
                      /\ to_string(a.source[1]) = to_string(b.source[1])
            /\ a = b => equal.eq
            /\ (a.kind # b.kind \/ a.message # b.message) => ~equal.eq

\* two errors whose sources are different objects with the same display
\* string compared equal
C25_Witness ==
    /\ Compared
    /\ errors.a.source = Some("source_err")
    /\ errors.b.source = Some("source_err_copy")
    /\ equal.eq

\* the calls made on the configuration so far
Entries == 1..Len(accesses)

\* the calls that were handed the configuration or the failure to load it:
\* get_config, and run_app when it got past setting the path
ObservesConfig(i) ==
    \/ accesses[i].op = "get"
    \/ accesses[i].op = "run_app" /\ accesses[i].before = None

\* the configuration such a call was handed, if it was handed one
Observed(i) ==
    IF accesses[i].op = "run_app" THEN accesses[i].printed
    ELSE IF accesses[i].res.ok THEN Some(accesses[i].res.val) ELSE None

ObservesPrefix(i) == accesses[i].op = "prefix"

\* the error get_config returns when there is no configuration
InvalidConfig ==
    Err(AppError_new("InvalidConfig",
        Format("Configuration file is missing or failed to load", <<>>), None))

\* the error of a path that was already set
ConfigFilePathError ==
    Err(AppError_new("ConfigFilePath",
        Format("Failed to set configuration file path", <<>>), None))

C28_ConfigFilePathSetOnce ==
    /\ \A i \in Entries :
          LET a == accesses[i] IN
          /\ a.op = "set" =>
                /\ a.res.ok <=> a.before = None
                /\ a.res.ok => a.res = Ok /\ a.after = Some(a.arg)
                /\ ~a.res.ok => a.res = ConfigFilePathError /\ a.after = a.before
          /\ (a.op = "run_app" /\ a.before = None) =>
                a.after = Some("./custom_config.toml")
          /\ (a.op = "run_app" /\ a.before # None) =>
                /\ a.res = ConfigFilePathError
                /\ ~a.read
                /\ a.after = a.before
          /\ a.op \in {"get", "prefix"} => a.after = a.before
    /\ \A i, j \in Entries :
          (i < j /\ accesses[i].after # None) =>
              /\ accesses[j].before = accesses[i].after
              /\ accesses[j].after = accesses[i].after
    /\ \A i \in Entries : accesses[i].after # None => CONFIG_FILE_PATH = accesses[i].after

\* run_app was called twice and the second call failed on the path
C28_Witness ==
    /\ Len(accesses) >= 2
    /\ accesses[1].op = "run_app" /\ accesses[1].before = None
    /\ accesses[2].op = "run_app" /\ accesses[2].res = ConfigFilePathError
    /\ ~accesses[2].read
    /\ CONFIG_FILE_PATH = Some("./custom_config.toml")

\* the call that read the configuration file for the call i
ReadFor(i) == CHOOSE r \in 1..i : accesses[r].read

\* C30: get_config returns the configuration or an InvalidConfig error and
\* never aborts: the error when the file read by the first access was
\* missing, did not build or did not deserialize, the configuration of that
\* file otherwise; a call that is not the first access reads no file, and
\* all calls of get_config return the same.
C30_GetConfigOutcomeIsCached ==
    \A i \in Entries :
        accesses[i].op = "get" =>
            /\ \E r \in 1..i : accesses[r].read
            /\ LET file == accesses[ReadFor(i)].file IN
               accesses[i].res =
                   IF file.found /\ file.complete
                   THEN [ok |-> TRUE, val |-> AppConfig(file.prefix)]
                   ELSE InvalidConfig
            /\ accesses[i].read => \A j \in 1..(i - 1) : accesses[j].op \notin {"get", "prefix"}
            /\ \A j \in 1..(i - 1) :
                  accesses[j].op = "get" =>
                      /\ ~accesses[i].read
                      /\ accesses[i].res = accesses[j].res

\* the first get_config found no usable file, the file was then put in
\* place, and the second get_config returned the same error without
\* reading it
C30_Witness ==
    /\ Len(accesses) >= 2
    /\ accesses[1].op = "get" /\ accesses[1].read
    /\ accesses[1].res = InvalidConfig
    /\ accesses[2].op = "get" /\ ~accesses[2].read
    /\ accesses[2].res = InvalidConfig
    /\ configFiles["./config"].found /\ configFiles["./config"].complete

====
